---- MODULE Spec2Model ----
(***************************************************************************)
(* Ledger-state core of the bazuka node: the key-value store behind        *)
(* KvStoreChain (src/blockchain.rs) and the transaction admission handler  *)
(* transact_contract_payment (src/node/api/transact_contract_payment.rs).  *)
(*                                                                         *)
(* Three specifications share the variables:                               *)
(*   SpecLedger  the store is filled through KvStore's operations, then    *)
(*               moved into KvStoreChain::new, and the Blockchain methods  *)
(*               are called on it directly;                                *)
(*   SpecExtend  extend is called with blocks on a chain over a ledger of  *)
(*               one-byte balances;                                        *)
(*   Spec        concurrent request handlers on one                        *)
(*               Arc<RwLock<NodeContext>> over a chain that is already     *)
(*               built.                                                    *)
(***************************************************************************)
EXTENDS Integers, Sequences, FiniteSets, TLC

VARIABLES
    store,      \* LevelDbKvStore: StringKey -> Option<Vec<u8>>
    chain,      \* "none" before KvStoreChain::new took the store, then "built"
    call,       \* the last call made on KvStoreChain, with what it produced
    clock,      \* the value network_timestamp() returns
    mempool,    \* contract_payment_mempool: entries (tx, TransactionStats)
    lockQueue,  \* tasks waiting on the RwLock, in arrival order
    holders,    \* tasks holding a guard of the RwLock
    pc,         \* each task's position in its handler
    req,        \* each task's request
    now,        \* transact_contract_payment's local `now`
    valid,      \* what validate_contract_payment returned to the task
    replaced,   \* what HashMap::insert returned to the task (discarded by the code)
    result,     \* what the handler returned
    validSeen   \* history: the transactions some admission found valid

vars == <<store, chain, call, clock, mempool, lockQueue, holders, pc, req,
          now, valid, replaced, result, validSeen>>

ledgerVars == <<store, chain, call>>
nodeVars == <<clock, mempool, lockQueue, holders, pc, req, now, valid,
              replaced, result, validSeen>>

-----------------------------------------------------------------------------
(* Bounds of the model.                                                    *)

MaxAddr == 1        \* addresses are 0..MaxAddr
MaxAmount == 1      \* transaction amounts are 1..MaxAmount
MaxValLen == 2      \* stored values have at most this many bytes
MaxBlocks == 1      \* extend is called with at most this many blocks
MaxBlockTxs == 1    \* a block has at most this many transactions
MaxPrev == 1        \* a block declares a predecessor height in 0..MaxPrev
MaxTime == 2        \* the network clock runs from 0 to MaxTime
NumTasks == 2       \* concurrent request handlers
MaxBalance == 1     \* Spec starts from ledgers with balances 0..MaxBalance
MaxKeyAddr == 120   \* SpecKey applies get_key to the addresses 0..MaxKeyAddr

-----------------------------------------------------------------------------
(* Primitives: Address, Money, Transaction, Block.                         *)

Address == 0 .. MaxAddr

\* u8: the only integer width Money::from_le_bytes([b[0]]) type-checks with.
MoneyMax == 255

\* The bytes the model writes into stored values: both ends of u8 and 1.
ByteSamples == {0, 1, MoneyMax}

RECURSIVE SeqsUpTo(_, _)
SeqsUpTo(S, n) ==
    IF n = 0 THEN {<<>>}
    ELSE LET shorter == SeqsUpTo(S, n - 1)
         IN  shorter \cup {Append(s, x) : s \in {q \in shorter : Len(q) = n - 1}, x \in S}

Values == SeqsUpTo(ByteSamples, MaxValLen)

Transaction == [src : Address, dst : Address, amount : 1 .. MaxAmount]

Block == [prev : 0 .. MaxPrev, txs : SeqsUpTo(Transaction, MaxBlockTxs)]

\* Option<T> as a sequence of at most one element.
None == <<>>
Some(v) == <<v>>
IsSome(o) == Len(o) = 1
Unwrap(o) == o[1]

\* Outcomes of calls: a returned value, an Err, or a panic.
Ok(v) == [tag |-> "Ok", val |-> v]
Err(e) == [tag |-> "Err", val |-> e]
Panic(m) == [tag |-> "Panic", val |-> m]
NoResult == [tag |-> "None", val |-> 0]

-----------------------------------------------------------------------------
(* StringKey and Identifiable::get_key.                                    *)

Digits == <<"0", "1", "2", "3", "4", "5", "6", "7", "8", "9">>

\* format!("{:?}", n) of an unsigned integer: its decimal digits.
RECURSIVE DebugFmt(_)
DebugFmt(n) ==
    IF n < 10 THEN <<Digits[n + 1]>>
    ELSE DebugFmt(n \div 10) \o <<Digits[(n % 10) + 1]>>

\* A key that keeps only the first character of the address's form.
get_key_first_char(addr) == <<"a", "d", "d", "r", "_">> \o <<Head(DebugFmt(addr))>>

get_key(addr) == <<"a", "d", "d", "r", "_">> \o DebugFmt(addr)

Keys == {get_key(a) : a \in Address}

-----------------------------------------------------------------------------
(* KvStore for LevelDbKvStore.  A get may fail (ok = FALSE) with           *)
(* KvStoreError::Failure.  A failed set or del leaves the database as it   *)
(* was, which is a step that changes nothing.                              *)

Failure == "KvStoreError::Failure"

KvGet(db, k, ok) == IF ok THEN Ok(db[k]) ELSE Err(Failure)

KvSet(db, k, v) == [db EXCEPT ![k] = Some(v)]

KvDel(db, k) == [db EXCEPT ![k] = None]

-----------------------------------------------------------------------------
(* Blockchain for KvStoreChain.                                            *)

\* Money::from_le_bytes: little-endian, byte i weighs 256^(i-1).
RECURSIVE from_le_bytes(_)
from_le_bytes(bytes) ==
    IF bytes = <<>> THEN 0 ELSE Head(bytes) + 256 * from_le_bytes(Tail(bytes))

\* get_balance with a wrong default for an address that has no record.
get_balance_default_one(r) ==
    IF r.tag = "Err" THEN Panic("unwrap on Err")
    ELSE IF ~IsSome(r.val) THEN Ok(1)
    ELSE IF Len(Unwrap(r.val)) = 0 THEN Panic("index out of bounds")
    ELSE Ok(from_le_bytes(<<Unwrap(r.val)[1]>>))

\* get_balance on the outcome r of self.database.get(addr.get_key()):
\* .unwrap() panics on Err, b[0] panics on an empty value.
get_balance(r) ==
    IF r.tag = "Err" THEN Panic("unwrap on Err")
    ELSE IF ~IsSome(r.val) THEN Ok(0)
    ELSE IF Len(Unwrap(r.val)) = 0 THEN Panic("index out of bounds")
    ELSE Ok(from_le_bytes(<<Unwrap(r.val)[1]>>))

get_height == 0

\* extend: unimplemented!() panics whatever the blocks are.
extend(blocks) == Panic("not implemented")

\* An extend that writes the first transaction's debit and then stops.
extend_writes_debit_only(db, blocks) ==
    IF blocks # <<>> /\ Head(blocks).txs # <<>>
    THEN LET tx == Head(Head(blocks).txs)
             bal == get_balance(KvGet(db, get_key(tx.src), TRUE))
         IN  IF bal.tag = "Ok" /\ bal.val >= tx.amount
             THEN KvSet(db, get_key(tx.src), <<bal.val - tx.amount>>)
             ELSE db
    ELSE db

\* What extend leaves in the database: it panics before any write.
extend_writes(db, blocks) == db

NoCall == [op |-> "none", addr |-> 0, blocks |-> <<>>, got |-> NoResult,
           height |-> 0, result |-> NoResult]

Balances(db) == [a \in Address |-> get_balance(KvGet(db, get_key(a), TRUE))]

-----------------------------------------------------------------------------
(* SpecLedger: the store's owner writes to it, hands it to                 *)
(* KvStoreChain::new, and the chain's methods are called.                  *)

EmptyStore == [k \in Keys |-> None]

StoreSet(k, v) ==
    /\ chain = "none"
    /\ store' = KvSet(store, k, v)
    /\ UNCHANGED <<chain, call>>
    /\ UNCHANGED nodeVars

StoreDel(k) ==
    /\ chain = "none"
    /\ store' = KvDel(store, k)
    /\ UNCHANGED <<chain, call>>
    /\ UNCHANGED nodeVars

ChainNew ==
    /\ chain = "none"
    /\ chain' = "built"
    /\ UNCHANGED <<store, call>>
    /\ UNCHANGED nodeVars

CallGetBalance(addr, ok) ==
    /\ chain = "built"
    /\ LET got == KvGet(store, get_key(addr), ok)
       IN  call' = [NoCall EXCEPT !.op = "get_balance", !.addr = addr, !.got = got,
                                  !.height = get_height, !.result = get_balance(got)]
    /\ UNCHANGED <<store, chain>>
    /\ UNCHANGED nodeVars

CallGetHeight ==
    /\ chain = "built"
    /\ call' = [NoCall EXCEPT !.op = "get_height", !.height = get_height,
                              !.result = Ok(get_height)]
    /\ UNCHANGED <<store, chain>>
    /\ UNCHANGED nodeVars

CallExtend(blocks) ==
    /\ chain = "built"
    /\ call' = [NoCall EXCEPT !.op = "extend", !.blocks = blocks,
                              !.height = get_height, !.result = extend(blocks)]
    /\ store' = extend_writes(store, blocks)
    /\ UNCHANGED chain
    /\ UNCHANGED nodeVars

Tasks == 1 .. NumTasks

NoTx == [src |-> 0, dst |-> 0, amount |-> 0]
NoReq == [op |-> "none", tx |-> NoTx, addr |-> 0, blocks |-> <<>>]

NodeIdle ==
    /\ clock = 0
    /\ mempool = {}
    /\ lockQueue = <<>>
    /\ holders = {}
    /\ pc = [t \in Tasks |-> "idle"]
    /\ req = [t \in Tasks |-> NoReq]
    /\ now = [t \in Tasks |-> 0]
    /\ valid = [t \in Tasks |-> NoResult]
    /\ replaced = [t \in Tasks |-> FALSE]
    /\ result = [t \in Tasks |-> NoResult]
    /\ validSeen = {}

InitLedger ==
    /\ store = EmptyStore
    /\ chain = "none"
    /\ call = NoCall
    /\ NodeIdle

NextLedger ==
    \/ \E k \in Keys, v \in Values : StoreSet(k, v)
    \/ \E k \in Keys : StoreDel(k)
    \/ ChainNew
    \/ \E a \in Address, ok \in BOOLEAN : CallGetBalance(a, ok)
    \/ CallGetHeight

SpecLedger == InitLedger /\ [][NextLedger]_vars

-----------------------------------------------------------------------------
(* SpecKey: get_key is applied to addresses.                               *)

KeyAddrs == 0 .. MaxKeyAddr

CallGetKey(addr) ==
    /\ call' = [NoCall EXCEPT !.op = "get_key", !.addr = addr, !.got = Ok(get_key(addr))]
    /\ UNCHANGED <<store, chain>>
    /\ UNCHANGED nodeVars

NextKey == \E a \in KeyAddrs : CallGetKey(a)

SpecKey == InitLedger /\ [][NextKey]_vars

-----------------------------------------------------------------------------
(* SpecExtend: blocks are handed to extend on a chain built over a ledger  *)
(* with one-byte balances.                                                 *)

InitLedgers ==
    [Keys -> {None} \cup {Some(<<b>>) : b \in 0 .. MaxBalance}]

InitExtend ==
    /\ store \in InitLedgers
    /\ chain = "built"
    /\ call = NoCall
    /\ NodeIdle

NextExtend ==
    \/ \E blocks \in SeqsUpTo(Block, MaxBlocks) : CallExtend(blocks)
    \/ \E a \in Address, ok \in BOOLEAN : CallGetBalance(a, ok)
    \/ CallGetHeight

SpecExtend == InitExtend /\ [][NextExtend]_vars

-----------------------------------------------------------------------------
(* NodeContext behind Arc<RwLock<..>>.  tokio's RwLock is fair: waiters    *)
(* are served in the order they asked; a writer needs the lock free, a     *)
(* reader needs it free of writers.                                        *)

IsWriter(t) == req[t].op \in {"admit", "extend"}

\* An acquisition that does not look at who holds the lock.
CanAcquireUnguarded(t) ==
    /\ lockQueue # <<>>
    /\ Head(lockQueue) = t

\* An acquisition that serves any waiter, not the first to have asked.
CanAcquireAnyWaiter(t) ==
    /\ \E i \in DOMAIN lockQueue : lockQueue[i] = t
    /\ IF IsWriter(t) THEN holders = {} ELSE \A h \in holders : ~IsWriter(h)

CanAcquire(t) ==
    /\ lockQueue # <<>>
    /\ Head(lockQueue) = t
    /\ IF IsWriter(t) THEN holders = {} ELSE \A h \in holders : ~IsWriter(h)

\* A guard that is kept when the handler returns.
ReleaseNever(t) == holders' = holders

\* The guard is dropped when the handler returns or unwinds.
Release(t) == holders' = holders \ {t}

network_timestamp == clock

\* validate_contract_payment: the sender's ledger balance covers the amount;
\* a failing store read is an error.
validate_contract_payment(db, tx, ok) ==
    IF ~ok THEN Err("StoreFailure")
    ELSE LET bal == get_balance(KvGet(db, get_key(tx.src), TRUE))
         IN  IF bal.tag = "Ok" THEN Ok(bal.val >= tx.amount) ELSE bal

\* An insert that appends, as into a Vec: an equal key is not replaced.
MempoolPush(pool, tx, stats) ==
    pool \cup {[tx |-> tx, first_seen |-> stats]}

\* An insert keyed by the sender: a sender's earlier entry is replaced.
MempoolInsertBySender(pool, tx, stats) ==
    {e \in pool : e.tx.src # tx.src} \cup {[tx |-> tx, first_seen |-> stats]}

\* HashMap::insert: the entry of an equal key is replaced.
MempoolInsert(pool, tx, stats) ==
    {e \in pool : e.tx # tx} \cup {[tx |-> tx, first_seen |-> stats]}

MempoolContains(pool, tx) == \E e \in pool : e.tx = tx

TransactContractPaymentResponse == Ok("TransactContractPaymentResponse {}")

\* A block request of the node carries no block or one block.
RequestBlocks == {<<>>} \cup {<<b>> : b \in Block}

Requests ==
    {[NoReq EXCEPT !.op = "admit", !.tx = tx] : tx \in Transaction}
    \cup {[NoReq EXCEPT !.op = "get_balance", !.addr = a] : a \in Address}
    \cup {[NoReq EXCEPT !.op = "get_height"]}
    \cup {[NoReq EXCEPT !.op = "extend", !.blocks = bs] : bs \in RequestBlocks}

\* network time passes
Tick ==
    /\ clock < MaxTime
    /\ clock' = clock + 1
    /\ UNCHANGED <<mempool, lockQueue, holders, pc, req, now, valid, replaced,
                   result, validSeen>>
    /\ UNCHANGED ledgerVars

\* a request arrives and its handler asks for the lock
\* (context.write().await, or .read().await for a query)
Request(t, r) ==
    /\ pc[t] = "idle"
    /\ pc' = [pc EXCEPT ![t] = "waiting"]
    /\ req' = [req EXCEPT ![t] = r]
    /\ lockQueue' = Append(lockQueue, t)
    /\ UNCHANGED <<clock, mempool, holders, now, valid, replaced, result, validSeen>>
    /\ UNCHANGED ledgerVars

Acquire(t) ==
    /\ pc[t] = "waiting"
    /\ CanAcquire(t)
    /\ lockQueue' = SelectSeq(lockQueue, LAMBDA x : x # t)
    /\ holders' = holders \cup {t}
    /\ pc' = [pc EXCEPT ![t] = "locked"]
    /\ UNCHANGED <<clock, mempool, req, now, valid, replaced, result, validSeen>>
    /\ UNCHANGED ledgerVars

\* transact_contract_payment, lines 12-14: now, then validation; `?` returns
\* the error at once.
Validate(t, ok) ==
    /\ pc[t] = "locked"
    /\ req[t].op = "admit"
    /\ LET v == validate_contract_payment(store, req[t].tx, ok)
       IN  /\ now' = [now EXCEPT ![t] = network_timestamp]
           /\ valid' = [valid EXCEPT ![t] = v]
           /\ IF v.tag = "Ok"
              THEN /\ pc' = [pc EXCEPT ![t] = "validated"]
                   /\ validSeen' = IF v.val THEN validSeen \cup {req[t].tx} ELSE validSeen
                   /\ UNCHANGED <<holders, result>>
              ELSE /\ pc' = [pc EXCEPT ![t] = "done"]
                   /\ result' = [result EXCEPT ![t] = v]
                   /\ Release(t)
                   /\ UNCHANGED validSeen
    /\ UNCHANGED <<clock, mempool, lockQueue, req, replaced>>
    /\ UNCHANGED ledgerVars

\* An admission that also debits the sender in the ledger.
InsertAndDebit(t) ==
    /\ pc[t] = "validated"
    /\ IF valid[t].val
       THEN /\ mempool' = MempoolInsert(mempool, req[t].tx, now[t])
            /\ replaced' = [replaced EXCEPT ![t] = MempoolContains(mempool, req[t].tx)]
            /\ store' = KvSet(store, get_key(req[t].tx.src),
                              <<Balances(store)[req[t].tx.src].val - req[t].tx.amount>>)
       ELSE UNCHANGED <<mempool, replaced, store>>
    /\ result' = [result EXCEPT ![t] = TransactContractPaymentResponse]
    /\ pc' = [pc EXCEPT ![t] = "done"]
    /\ Release(t)
    /\ UNCHANGED <<clock, lockQueue, req, now, valid, validSeen>>
    /\ UNCHANGED <<chain, call>>

\* transact_contract_payment, lines 14-20: the insert when valid, then
\* Ok(TransactContractPaymentResponse {}) and the guard goes out of scope.
Insert(t) ==
    /\ pc[t] = "validated"
    /\ IF valid[t].val
       THEN /\ mempool' = MempoolInsert(mempool, req[t].tx, now[t])
            /\ replaced' = [replaced EXCEPT ![t] = MempoolContains(mempool, req[t].tx)]
       ELSE UNCHANGED <<mempool, replaced>>
    /\ result' = [result EXCEPT ![t] = TransactContractPaymentResponse]
    /\ pc' = [pc EXCEPT ![t] = "done"]
    /\ Release(t)
    /\ UNCHANGED <<clock, lockQueue, req, now, valid, validSeen>>
    /\ UNCHANGED ledgerVars

\* a query handler calls get_balance under its read guard
BalanceQuery(t, ok) ==
    /\ pc[t] = "locked"
    /\ req[t].op = "get_balance"
    /\ result' = [result EXCEPT ![t] = get_balance(KvGet(store, get_key(req[t].addr), ok))]
    /\ pc' = [pc EXCEPT ![t] = "done"]
    /\ Release(t)
    /\ UNCHANGED <<clock, mempool, lockQueue, req, now, valid, replaced, validSeen>>
    /\ UNCHANGED ledgerVars

\* a query handler calls get_height under its read guard
HeightQuery(t) ==
    /\ pc[t] = "locked"
    /\ req[t].op = "get_height"
    /\ result' = [result EXCEPT ![t] = Ok(get_height)]
    /\ pc' = [pc EXCEPT ![t] = "done"]
    /\ Release(t)
    /\ UNCHANGED <<clock, mempool, lockQueue, req, now, valid, replaced, validSeen>>
    /\ UNCHANGED ledgerVars

\* a block handler calls extend under its write guard
ExtendCall(t) ==
    /\ pc[t] = "locked"
    /\ req[t].op = "extend"
    /\ result' = [result EXCEPT ![t] = extend(req[t].blocks)]
    /\ store' = extend_writes(store, req[t].blocks)
    /\ pc' = [pc EXCEPT ![t] = "done"]
    /\ Release(t)
    /\ UNCHANGED <<clock, mempool, lockQueue, req, now, valid, replaced, validSeen>>
    /\ UNCHANGED <<chain, call>>

Init ==
    /\ store \in InitLedgers
    /\ chain = "built"
    /\ call = NoCall
    /\ NodeIdle

Next ==
    \/ Tick
    \/ \E t \in Tasks, r \in Requests : Request(t, r)
    \/ \E t \in Tasks : Acquire(t)
    \/ \E t \in Tasks, ok \in BOOLEAN : Validate(t, ok)
    \/ \E t \in Tasks : Insert(t)
    \/ \E t \in Tasks, ok \in BOOLEAN : BalanceQuery(t, ok)
    \/ \E t \in Tasks : HeightQuery(t)
    \/ \E t \in Tasks : ExtendCall(t)

Spec == Init /\ [][Next]_vars

\* The runtime polls every task that can run: a handler that can take its
\* next step takes it, and a waiter the lock can be granted to gets it.
Fairness ==
    \A t \in Tasks :
        /\ WF_vars(Acquire(t))
        /\ WF_vars(\E ok \in BOOLEAN : Validate(t, ok))
        /\ WF_vars(Insert(t))
        /\ WF_vars(\E ok \in BOOLEAN : BalanceQuery(t, ok))
        /\ WF_vars(HeightQuery(t))
        /\ WF_vars(ExtendCall(t))

SpecFair == Init /\ [][Next]_vars /\ Fairness

-----------------------------------------------------------------------------
(* Properties.                                                             *)

IsAdmit(t) == req[t].op = "admit"

FoundValid(t) == valid[t].tag = "Ok" /\ valid[t].val

FoundInvalid(t) == valid[t].tag = "Ok" /\ ~valid[t].val

Entries(tx) == {e \in mempool : e.tx = tx}

\* What an admission amounted to: newly admitted, already pending, or
\* rejected for a reason.
Outcome(t) ==
    IF FoundValid(t)
    THEN IF replaced[t] THEN "already pending" ELSE "admitted"
    ELSE IF FoundInvalid(t) THEN "rejected: invalid"
    ELSE "rejected: StoreFailure"

\* C1: admitting the identical valid transaction at t1 and again at t2 > t1
\* answers Accepted both times and leaves exactly one pending entry, whose
\* first-seen timestamp is t1.
C1_ResubmitKeepsFirstSeen ==
    \A t, u \in Tasks :
        ( /\ t # u
          /\ IsAdmit(t) /\ IsAdmit(u)
          /\ pc[t] = "done" /\ pc[u] = "done"
          /\ req[t].tx = req[u].tx
          /\ FoundValid(t) /\ FoundValid(u)
          /\ now[t] < now[u] )
        => /\ result[t] = TransactContractPaymentResponse
           /\ result[u] = TransactContractPaymentResponse
           /\ Entries(req[t].tx) = {[tx |-> req[t].tx, first_seen |-> now[t]]}

\* C2: the pending set never holds more entries than there are distinct
\* transactions that some admission found valid, and never two entries for
\* one transaction, however often a transaction is resubmitted.
C2_PendingBounded ==
    /\ Cardinality(mempool) <= Cardinality(validSeen)
    /\ \A tx \in Transaction : Cardinality(Entries(tx)) <= 1

\* C2's case: a valid transaction was resubmitted at a later time while pending.
C2_Witness ==
    \E t, u \in Tasks :
        /\ t # u /\ IsAdmit(t) /\ IsAdmit(u)
        /\ pc[t] = "done" /\ pc[u] = "done"
        /\ req[t].tx = req[u].tx
        /\ replaced[u] /\ now[t] < now[u]
        /\ Cardinality(mempool) = 1

\* C3: an admission whose validation fails (false, or an error) leaves the
\* pending set as it was and answers Rejected.
C3_InvalidIsRejected ==
    [][\A t \in Tasks :
          ( /\ IsAdmit(t)
            /\ pc[t] \in {"locked", "validated"}
            /\ pc'[t] = "done"
            /\ ~(valid'[t].tag = "Ok" /\ valid'[t].val) )
          => /\ mempool' = mempool
             /\ result'[t].tag = "Err"]_vars

\* C4: two admissions with different outcomes (admitted, already pending,
\* rejected for a reason) never get the same response.
C4_OutcomesDistinguished ==
    \A t, u \in Tasks :
        ( /\ IsAdmit(t) /\ IsAdmit(u)
          /\ pc[t] = "done" /\ pc[u] = "done"
          /\ Outcome(t) # Outcome(u) )
        => result[t] # result[u]

\* C5: from the moment an admission holds the lock until it returns, no
\* other handler takes a step on the context; others can only arrive and
\* queue for the lock.
C5_NoInterleaving ==
    [][\A t \in Tasks :
          (IsAdmit(t) /\ pc[t] \in {"locked", "validated"})
          => /\ holders = {t}
             /\ \A u \in Tasks \ {t} :
                    \/ pc'[u] = pc[u]
                    \/ pc[u] = "idle" /\ pc'[u] = "waiting"]_vars

\* C5's case: an admission has validated and not yet inserted, while
\* another writer is waiting for the lock.
C5_Witness ==
    \E t, u \in Tasks :
        /\ t # u
        /\ IsAdmit(t) /\ pc[t] = "validated" /\ FoundValid(t)
        /\ IsWriter(u) /\ pc[u] = "waiting"

\* C6: get_balance of an address with no record in the store returns zero,
\* whatever the rest of the ledger holds.
C6_NoRecordIsZero ==
    ( /\ call.op = "get_balance"
      /\ call.got.tag = "Ok"
      /\ store[get_key(call.addr)] = None )
    => call.result = Ok(0)

\* C6's case: get_balance returned for an address without a record while
\* another address has one.
C6_Witness ==
    /\ call.op = "get_balance"
    /\ store[get_key(call.addr)] = None
    /\ call.result.tag = "Ok"
    /\ \E a \in Address : IsSome(store[get_key(a)])

\* C7: get_balance returns the whole stored value: every byte of the
\* record counts, not only the low-order one.
C7_MoneyRoundTrips ==
    ( /\ call.op = "get_balance"
      /\ call.got.tag = "Ok"
      /\ IsSome(call.got.val)
      /\ Len(Unwrap(call.got.val)) >= 1 )
    => call.result = Ok(from_le_bytes(Unwrap(call.got.val)))

\* C8: when the store's get fails, get_balance returns StoreFailure as an
\* error: no panic, no balance.
C8_StoreFailureReturned ==
    (call.op = "get_balance" /\ call.got.tag = "Err")
    => call.result = Err("StoreFailure")

\* C9: extend applied to blocks that continue the chain and have no
\* transaction to refuse accepts them, and get_height is then the height
\* before plus the number of those blocks.
C9_HeightCountsBlocks ==
    ( /\ call.op = "extend"
      /\ call.blocks # <<>>
      /\ \A i \in DOMAIN call.blocks :
             /\ call.blocks[i].prev = call.height + i - 1
             /\ call.blocks[i].txs = <<>> )
    => /\ call.result.tag = "Ok"
       /\ get_height = call.height + Len(call.blocks)

\* C10: extend with a block whose predecessor height is not the current
\* height answers ChainDiscontinuity and leaves balances and height alone.
C10_DiscontinuityRejected ==
    [][( /\ call' # call
         /\ call'.op = "extend"
         /\ call'.blocks # <<>>
         /\ call'.blocks[1].prev # call'.height )
       => /\ call'.result = Err("ChainDiscontinuity")
          /\ store' = store
          /\ get_height = call'.height]_vars

\* The ledger the contract of extend works on: the balance of every address.
BalVals(db) == [a \in Address |-> Balances(db)[a].val]

\* A transfer debits the sender and credits the recipient by the amount.
ApplyTx(bal, tx) ==
    [[bal EXCEPT ![tx.src] = @ - tx.amount] EXCEPT ![tx.dst] = @ + tx.amount]

RECURSIVE ApplyTxs(_, _)
ApplyTxs(bal, txs) ==
    IF txs = <<>> THEN bal ELSE ApplyTxs(ApplyTx(bal, Head(txs)), Tail(txs))

\* No debit of txs, applied in order, drives a balance below zero.
RECURSIVE Affordable(_, _)
Affordable(bal, txs) ==
    \/ txs = <<>>
    \/ /\ bal[Head(txs).src] >= Head(txs).amount
       /\ Affordable(ApplyTx(bal, Head(txs)), Tail(txs))

RECURSIVE SumBal(_, _)
SumBal(bal, addrs) ==
    IF addrs = {} THEN 0
    ELSE LET a == CHOOSE x \in addrs : TRUE
         IN  bal[a] + SumBal(bal, addrs \ {a})

\* An extend call was just made with one block that continues the chain.
ExtendStep ==
    /\ call' # call
    /\ call'.op = "extend"
    /\ Len(call'.blocks) = 1
    /\ call'.blocks[1].prev = call'.height

\* C11: extend with a block holding a transaction whose debit drives a
\* balance below zero answers InsufficientFunds for the block and leaves
\* every balance and the height as they were.
C11_OverdraftRejectsBlock ==
    [][( /\ ExtendStep
         /\ ~Affordable(BalVals(store), call'.blocks[1].txs) )
       => /\ call'.result = Err("InsufficientFunds")
          /\ BalVals(store') = BalVals(store)
          /\ get_height = call'.height]_vars

\* C12: extend with a valid block moves every transfer's amount from its
\* sender to its recipient and nothing else, so the sum of all balances
\* is what it was.
C12_TransfersConserveValue ==
    [][( /\ ExtendStep
         /\ Affordable(BalVals(store), call'.blocks[1].txs) )
       => /\ BalVals(store') = ApplyTxs(BalVals(store), call'.blocks[1].txs)
          /\ SumBal(BalVals(store'), Address) = SumBal(BalVals(store), Address)]_vars

\* C13: extend with a valid block either reports the failed batch commit
\* and leaves balances and height as they were, so that a retry applies the
\* block once, or has applied the block exactly once.
C13_CommitFailsOrAppliesOnce ==
    [][( /\ ExtendStep
         /\ Affordable(BalVals(store), call'.blocks[1].txs) )
       => \/ /\ call'.result = Err("StoreFailure")
             /\ BalVals(store') = BalVals(store)
          \/ /\ call'.result.tag = "Ok"
             /\ BalVals(store') = ApplyTxs(BalVals(store), call'.blocks[1].txs)]_vars

\* C14: no step leaves a block half applied: a step either leaves every
\* balance (and get_height) as it was, or it is an accepted extend whose
\* block's transfers are all in the balances.
C14_NoPartialBlock ==
    [][\/ BalVals(store') = BalVals(store)
       \/ \E t \in Tasks :
             /\ req[t].op = "extend" /\ pc[t] = "locked" /\ pc'[t] = "done"
             /\ Len(req[t].blocks) = 1
             /\ result'[t].tag = "Ok"
             /\ BalVals(store') = ApplyTxs(BalVals(store), req[t].blocks[1].txs)]_vars

\* C14's case: extend has run on a block with a transfer the ledger
\* covers, and a balance query has read the sender's balance.
C14_Witness ==
    \E t, u \in Tasks :
        /\ req[t].op = "extend" /\ pc[t] = "done"
        /\ Len(req[t].blocks) = 1
        /\ req[t].blocks[1].prev = get_height
        /\ req[t].blocks[1].txs # <<>>
        /\ Affordable(BalVals(store), req[t].blocks[1].txs)
        /\ req[u].op = "get_balance" /\ pc[u] = "done"
        /\ req[u].addr = req[t].blocks[1].txs[1].src
        /\ result[u] = Ok(BalVals(store)[req[u].addr])

\* Two finished admissions of different transactions of one sender whose
\* ledger balance covers each amount but not their sum, both validated
\* without a store error.
TwoCoveredAlone(t, u) ==
    /\ t # u
    /\ IsAdmit(t) /\ IsAdmit(u)
    /\ pc[t] = "done" /\ pc[u] = "done"
    /\ req[t].tx # req[u].tx
    /\ req[t].tx.src = req[u].tx.src
    /\ valid[t].tag = "Ok" /\ valid[u].tag = "Ok"
    /\ BalVals(store)[req[t].tx.src] >= req[t].tx.amount
    /\ BalVals(store)[req[t].tx.src] >= req[u].tx.amount
    /\ BalVals(store)[req[t].tx.src] < req[t].tx.amount + req[u].tx.amount

\* C15: two transactions of one sender, each covered by the ledger balance
\* and not both together, are both accepted and both pending.
C15_PendingNotCounted ==
    \A t, u \in Tasks :
        TwoCoveredAlone(t, u)
        => /\ FoundValid(t) /\ FoundValid(u)
           /\ result[t] = TransactContractPaymentResponse
           /\ result[u] = TransactContractPaymentResponse
           /\ MempoolContains(mempool, req[t].tx)
           /\ MempoolContains(mempool, req[u].tx)

\* C15's case: such two admissions have finished.
C15_Witness == \E t, u \in Tasks : TwoCoveredAlone(t, u)

\* C16: an admission that has returned, with a response or with an error,
\* holds no guard, and every request waiting for the lock is eventually
\* granted it.
C16_ReleasedAndGranted ==
    /\ [](\A t \in Tasks : (IsAdmit(t) /\ pc[t] = "done") => t \notin holders)
    /\ \A u \in Tasks : (pc[u] = "waiting") ~> (pc[u] # "waiting")

\* C16's case: an admission returned the validation error and a later
\* request holds the lock.
C16_Witness ==
    \E t, u \in Tasks :
        /\ IsAdmit(t) /\ pc[t] = "done" /\ result[t].tag = "Err"
        /\ pc[u] = "locked" /\ u \in holders

QueuePos(t) == CHOOSE i \in DOMAIN lockQueue : lockQueue[i] = t

\* C17: a writer is granted the lock only when no other writer that asked
\* before it is still waiting: admissions and extensions are served in
\* the order they asked.
C17_ServedInArrivalOrder ==
    [][\A u \in Tasks :
          (IsWriter(u) /\ pc[u] = "waiting" /\ pc'[u] = "locked")
          => \A t \in Tasks \ {u} :
                (IsWriter(t) /\ pc[t] = "waiting") => QueuePos(u) < QueuePos(t)]_vars

\* C17's case: an admission was granted the lock while an extension that
\* asked after it is still waiting.
C17_Witness ==
    \E a, e \in Tasks :
        /\ IsAdmit(a) /\ pc[a] \in {"locked", "validated"}
        /\ req[e].op = "extend" /\ pc[e] = "waiting"
        /\ lockQueue = <<e>>

\* C18: no two distinct addresses have the same key.
C18_KeyInjective ==
    call.op = "get_key"
    => \A b \in KeyAddrs : (get_key(b) = call.got.val) => (b = call.addr)

\* C18's case: get_key was applied to an address whose form has more than
\* one character and shares its first with another address.
C18_Witness ==
    /\ call.op = "get_key"
    /\ call.addr >= 10
    /\ Len(call.got.val) > 6

\* C19: no step of an admission changes the ledger: the store, and with
\* it every balance and the height, is the same after each of its steps.
C19_AdmissionLeavesLedger ==
    [][\A t \in Tasks :
          (IsAdmit(t) /\ pc'[t] # pc[t])
          => /\ store' = store
             /\ chain' = chain]_vars

\* C19's case: an admission has put its transaction into the pending set.
C19_Witness ==
    \E t \in Tasks :
        /\ IsAdmit(t) /\ pc[t] = "done" /\ FoundValid(t)
        /\ MempoolContains(mempool, req[t].tx)

====
